---- MODULE Spec2Model ----
(***************************************************************************)
(* LazyAuth: OAuth2 authorization-code login with signed session tokens.   *)
(* Model of src/lazyauth/auth.py (login, auth_callback, get_current_user,  *)
(* auth_status, logout, create_jwt_token, verify_jwt_token,                *)
(* cleanup_expired_sessions) running on one asyncio event loop: a handler  *)
(* runs without interruption between two awaits.                           *)
(*                                                                         *)
(* Time is counted in ticks, TicksPerSecond ticks to a second, so that a   *)
(* datetime with a sub-second part differs from its whole-second value.    *)
(***************************************************************************)
EXTENDS Integers, Sequences, FiniteSets, TLC

\* ------------------------------------------------------------------ bounds
MaxLogins == 2
MaxTime == 2400
TicksPerSecond == 2
MaxIssued == 1
Handlers == {"h1", "h2"}

\* ------------------------------------------------------- program constants
ExpiredAfterSeconds == 600
jwt_expiration_minutes == 30
jwt_secret_key == "server-secret"
jwt_algorithm == "HS256"

\* Python None where a string is expected, and where an object is expected.
None == "None"
NoneObj == [py |-> "None"]

\* The empty dict: a document that lacks every key.
EmptyDict == [id |-> None, sub |-> None, email |-> None, name |-> None, display_name |-> None]

\* ------------------------------------------------------------------ inputs
\* The state values a callback can present: the nonces login can hand out
\* and one value that login never hands out.
Nonces == 1..MaxLogins
UnknownState == MaxLogins + 1
StateParams == Nonces \cup {UnknownState}

\* The clock starts on a whole second or one tick after it, and advances by
\* ten minutes at a time.
ClockStarts == {0, 1}
ClockSteps == {600 * TicksPerSecond}

\* Provider user-info documents; None marks a key the document lacks.  One
\* has every key, the other has sub and display_name but no id and no name.
Profiles ==
  { [id |-> "u1", sub |-> "s1", email |-> "a@b.com", name |-> "Ann", display_name |-> "Annie"],
    [id |-> None, sub |-> "s2", email |-> None, name |-> None, display_name |-> "Bob"] }

\* Users handed to create_jwt_token directly: empty and non-empty id, email
\* and name present or absent, two provider strings, a non-empty profile.
Identities ==
  { [id |-> i, email |-> e, name |-> n, provider |-> p,
     provider_data |-> [id |-> "u1", sub |-> None, email |-> "a@b.com",
                        name |-> "Ann", display_name |-> None]] :
      i \in {"u1", ""}, e \in {None, "a@b.com"}, n \in {None, "Ann"},
      p \in {"oauth2", "github"} }

\* httpx.AsyncClient() is built without a timeout argument, so each request
\* runs under the library's default timeout and raises a timeout error (an
\* httpx.HTTPError) when the provider does not answer.
Timeout == "ConnectTimeout"

\* str(e) of the httpx.HTTPError a provider call can raise.
ProviderErrors == {Timeout, "401 Unauthorized"}

VARIABLES
  now,        \* datetime.now(timezone.utc), in ticks
  sessions,   \* auth.py:23  state -> <<status, timestamp>>
  nextNonce,  \* how many states secrets.token_urlsafe has produced
  cb,         \* per callback handler: position and state argument
  response,   \* the last HTTP response the server sent
  logins,     \* history: user, token and time of every token issued
  passed      \* history: state -> number of callbacks that passed validation

vars == <<now, sessions, nextNonce, cb, response, logins, passed>>

\* ---------------------------------------------------------------- helpers
Truthy(x) == x \notin {None, ""}

\* Python `a or b`
Or(a, b) == IF Truthy(a) THEN a ELSE b

\* dict without key k
DictDel(d, k) == [s \in (DOMAIN d) \ {k} |-> d[s]]

\* dict with d[k] = v
DictSet(d, k, v) == [s \in (DOMAIN d) \cup {k} |-> IF s = k THEN v ELSE d[s]]

\* Variant: an entry exactly 600 seconds old already counts as expired.
IsExpiredSession_AtWindow(current_time, timestamp) ==
  (current_time - timestamp) >= ExpiredAfterSeconds * TicksPerSecond

\* (current_time - timestamp).total_seconds() > 600
IsExpiredSession(current_time, timestamp) ==
  (current_time - timestamp) > ExpiredAfterSeconds * TicksPerSecond

\* Variant: the sweep removes nothing.
cleanup_expired_sessions_Nothing(sess, current_time) == sess

cleanup_expired_sessions(sess, current_time) ==
  LET expired == {state \in DOMAIN sess : IsExpiredSession(current_time, sess[state][2])}
  IN  [state \in (DOMAIN sess) \ expired |-> sess[state]]

\* ------------------------------------------------------------- JWT (jose)
\* HMAC signature over the claim set, idealised: equal only for equal key
\* and equal claims.
Sign(key, claims) == [key |-> key, msg |-> claims]

\* jwt.encode: a datetime claim becomes whole seconds since the epoch.
jwt_encode(to_encode, key) ==
  LET claims == [to_encode EXCEPT !.exp = to_encode.exp \div TicksPerSecond]
  IN  [claims |-> claims, sig |-> Sign(key, claims)]

\* Strings that are not three base64url segments.
Garbage == [raw |-> "garbage"]
EmptyString == [raw |-> ""]

IsJwt(token) == DOMAIN token = {"claims", "sig"}

JWTError == [raise |-> "JWTError"]

\* Variant: the signature is not checked.
jwt_decode_NoSignature(token, key, current_time) ==
  IF ~IsJwt(token) THEN JWTError
  ELSE IF token.claims.exp < (current_time \div TicksPerSecond) THEN JWTError
  ELSE IF token.claims.sub = None THEN JWTError
  ELSE token.claims

\* jwt.decode: the payload, or "JWTError".  The signature is checked first,
\* then exp against the current whole second (expired when exp < now),
\* then that sub is a string.
jwt_decode(token, key, current_time) ==
  IF ~IsJwt(token) THEN JWTError
  ELSE IF token.sig # Sign(key, token.claims) THEN JWTError
  ELSE IF token.claims.exp < (current_time \div TicksPerSecond) THEN JWTError
  ELSE IF token.claims.sub = None THEN JWTError
  ELSE token.claims

\* Variant: expires_in is given in minutes.
create_jwt_token_Minutes(user, current_time) ==
  LET expires_delta == jwt_expiration_minutes * 60 * TicksPerSecond
      expire == current_time + expires_delta
      to_encode == [sub |-> user.id, email |-> user.email, name |-> user.name,
                    provider |-> user.provider, exp |-> expire]
  IN  [access_token |-> jwt_encode(to_encode, jwt_secret_key),
       token_type |-> "bearer",
       expires_in |-> jwt_expiration_minutes]

create_jwt_token(user, current_time) ==
  LET expires_delta == jwt_expiration_minutes * 60 * TicksPerSecond
      expire == current_time + expires_delta
      to_encode == [sub |-> user.id, email |-> user.email, name |-> user.name,
                    provider |-> user.provider, exp |-> expire]
  IN  [access_token |-> jwt_encode(to_encode, jwt_secret_key),
       token_type |-> "bearer",
       expires_in |-> jwt_expiration_minutes * 60]

\* Variant: the email claim is not copied into the user.
verify_jwt_token_NoEmail(token, current_time) ==
  LET payload == jwt_decode(token, jwt_secret_key, current_time)
  IN  IF payload = JWTError THEN NoneObj
      ELSE IF payload.sub = None THEN NoneObj
      ELSE [id |-> payload.sub, email |-> None, name |-> payload.name,
            provider |-> payload.provider, provider_data |-> EmptyDict]

verify_jwt_token(token, current_time) ==
  LET payload == jwt_decode(token, jwt_secret_key, current_time)
  IN  IF payload = JWTError THEN NoneObj
      ELSE IF payload.sub = None THEN NoneObj
      ELSE [id |-> payload.sub, email |-> payload.email, name |-> payload.name,
            provider |-> payload.provider, provider_data |-> EmptyDict]

\* ------------------------------------------------------------- credentials
\* An Authorization header is the words before the credential, each followed
\* by a space, and the credential: <<"Bearer">> and t is "Bearer t".
BearerHeader(t) == [words |-> <<"Bearer">>, cred |-> t]
BasicHeader(t) == [words |-> <<"Basic">>, cred |-> t]
DoubleBearerHeader(t) == [words |-> <<"Bearer", "Bearer">>, cred |-> t]

\* auth_header.startswith("Bearer ")
StartsWithBearer(h) == Len(h.words) >= 1 /\ h.words[1] = "Bearer"

\* auth_header.replace("Bearer ", ""): every occurrence goes; what is left
\* is the credential alone, or text with a space in it.
ReplaceBearer(h) ==
  LET rest == SelectSeq(h.words, LAMBDA w : w # "Bearer")
  IN  IF rest = <<>> THEN h.cred ELSE Garbage

\* Claim sets that differ from an issued one in one field.
Tampered(t) ==
  { [t EXCEPT !.claims.sub = "admin"],
    [t EXCEPT !.claims.email = "evil@x.com"],
    [t EXCEPT !.claims.name = "Eve"],
    [t EXCEPT !.claims.provider = "internal"],
    [t EXCEPT !.claims.exp = t.claims.exp + jwt_expiration_minutes * 60] }

\* The same claims under a signature made with another secret.
Resigned(t) == [t EXCEPT !.sig = Sign("other-secret", t.claims)]

\* The access tokens create_jwt_token has returned.
Issued == {l.token : l \in logins}

Credentials ==
  Issued \cup UNION {Tampered(t) : t \in Issued} \cup {Resigned(t) : t \in Issued}
         \cup {Garbage, EmptyString}

\* Requests reaching get_current_user: a header, a cookie, or both.
Requests ==
  LET headers == {BearerHeader(t) : t \in Credentials}
                   \cup {BasicHeader(t) : t \in Issued}
                   \cup {DoubleBearerHeader(t) : t \in Issued}
  IN  {[header |-> NoneObj, cookie |-> NoneObj]}
        \cup {[header |-> h, cookie |-> NoneObj] : h \in headers}
        \cup {[header |-> NoneObj, cookie |-> c] : c \in Credentials}
        \cup {[header |-> h, cookie |-> c] :
                h \in {BearerHeader(t) : t \in Issued \cup {Garbage}}
                       \cup {DoubleBearerHeader(t) : t \in Issued},
                c \in Issued \cup {Garbage}}

\* ------------------------------------------------------- get_current_user
Unauthorized == [status |-> 401, user |-> NoneObj]

get_current_user(request, current_time) ==
  LET auth_header == request.header
      header_user ==
        IF auth_header # NoneObj /\ StartsWithBearer(auth_header)
        THEN verify_jwt_token(ReplaceBearer(auth_header), current_time)
        ELSE NoneObj
      cookie == request.cookie
      cookie_user ==
        IF cookie # NoneObj /\ cookie # EmptyString
        THEN verify_jwt_token(cookie, current_time)
        ELSE NoneObj
  IN  IF header_user # NoneObj THEN [status |-> 200, user |-> header_user]
      ELSE IF cookie_user # NoneObj THEN [status |-> 200, user |-> cookie_user]
      ELSE Unauthorized

\* Variant: the HTTPException is not caught.
auth_status_Raises(request, current_time) ==
  LET r == get_current_user(request, current_time)
  IN  IF r.status = 200
      THEN [status |-> 200, authenticated |-> TRUE, user |-> r.user]
      ELSE [status |-> 401, authenticated |-> FALSE, user |-> NoneObj]

\* auth_status: HTTPException becomes authenticated = False.
auth_status(request, current_time) ==
  LET r == get_current_user(request, current_time)
  IN  IF r.status = 200
      THEN [status |-> 200, authenticated |-> TRUE, user |-> r.user]
      ELSE [status |-> 200, authenticated |-> FALSE, user |-> NoneObj]

\* Variant: the subject is taken from sub before id.
UserFromProfile_SubFirst(user_data) ==
  [id |-> Or(user_data.sub, IF user_data.id = None THEN "unknown" ELSE user_data.id),
   email |-> user_data.email,
   name |-> Or(user_data.name, user_data.display_name),
   provider |-> "oauth2",
   provider_data |-> user_data]

\* ------------------------------------------------------------ user object
\* auth_callback, "Create user object from provider data"
UserFromProfile(user_data) ==
  [id |-> Or(user_data.id, IF user_data.sub = None THEN "unknown" ELSE user_data.sub),
   email |-> user_data.email,
   name |-> Or(user_data.name, user_data.display_name),
   provider |-> "oauth2",
   provider_data |-> user_data]

\* ------------------------------------------------------------------- state
IdleHandler == [pc |-> "idle", state |-> UnknownState]

NoResponse == [op |-> "none"]

Init ==
  /\ now \in ClockStarts
  /\ sessions = [s \in {} |-> <<"pending", 0>>]
  /\ nextNonce = 0
  /\ cb = [h \in Handlers |-> IdleHandler]
  /\ response = NoResponse
  /\ logins = {}
  /\ passed = [s \in StateParams |-> 0]

\* ----------------------------------------------------------------- actions
\* Time passes.
Tick(d) ==
  /\ now + d <= MaxTime * TicksPerSecond
  /\ now' = now + d
  /\ UNCHANGED <<sessions, nextNonce, cb, response, logins, passed>>

\* GET /auth/login: sweep, then store a fresh state.  secrets.token_urlsafe(32)
\* is taken to return a value it has not returned before.
login ==
  /\ nextNonce < MaxLogins
  /\ LET state == nextNonce + 1
         swept == cleanup_expired_sessions(sessions, now)
     IN  /\ sessions' = DictSet(swept, state, <<"pending", now>>)
         /\ nextNonce' = state
         /\ response' = [op |-> "login", status |-> 200, state |-> state,
                         url_state |-> state]
  /\ UNCHANGED <<now, cb, logins, passed>>

\* Variant: the 400 tells a state that was once issued from one that never was.
InvalidState_Leaky(state) ==
  [op |-> "callback", state |-> state, status |-> 400,
   detail |-> IF state <= nextNonce
              THEN <<"State expired or already used">>
              ELSE <<"Invalid state parameter">>]

InvalidState(state) ==
  [op |-> "callback", state |-> state, status |-> 400,
   detail |-> <<"Invalid state parameter">>]

\* Variant: the callback asks for the profile without exchanging the code.
CallbackStart_SkipExchange(h, state) ==
  /\ cb[h].pc = "idle"
  /\ IF state \notin DOMAIN sessions
     THEN /\ response' = InvalidState(state)
          /\ UNCHANGED <<sessions, cb, passed>>
     ELSE /\ sessions' = DictDel(sessions, state)
          /\ cb' = [cb EXCEPT ![h] = [pc |-> "get", state |-> state]]
          /\ passed' = [passed EXCEPT ![state] = @ + 1]
          /\ UNCHANGED response
  /\ UNCHANGED <<now, nextNonce, logins>>

\* Variant: the validated state is left in the table.
CallbackStart_NoDelete(h, state) ==
  /\ cb[h].pc = "idle"
  /\ IF state \notin DOMAIN sessions
     THEN /\ response' = InvalidState(state)
          /\ UNCHANGED <<sessions, cb, passed>>
     ELSE /\ cb' = [cb EXCEPT ![h] = [pc |-> "post", state |-> state]]
          /\ passed' = [passed EXCEPT ![state] = @ + 1]
          /\ UNCHANGED <<sessions, response>>
  /\ UNCHANGED <<now, nextNonce, logins>>

\* Variant: the membership test is missing (the removal tolerates a missing
\* key), so every callback goes on to the provider.
CallbackStart_NoCheck(h, state) ==
  /\ cb[h].pc = "idle"
  /\ sessions' = DictDel(sessions, state)
  /\ cb' = [cb EXCEPT ![h] = [pc |-> "post", state |-> state]]
  /\ passed' = [passed EXCEPT ![state] = @ + 1]
  /\ UNCHANGED <<now, nextNonce, logins, response>>

\* GET /auth/callback up to its first await: validate and remove the state,
\* then send the token request.
CallbackStart(h, state) ==
  /\ cb[h].pc = "idle"
  /\ IF state \notin DOMAIN sessions
     THEN /\ response' = InvalidState(state)
          /\ UNCHANGED <<sessions, cb, passed>>
     ELSE /\ sessions' = DictDel(sessions, state)
          /\ cb' = [cb EXCEPT ![h] = [pc |-> "post", state |-> state]]
          /\ passed' = [passed EXCEPT ![state] = @ + 1]
          /\ UNCHANGED response
  /\ UNCHANGED <<now, nextNonce, logins>>

ProviderFailure(state, e) ==
  [op |-> "callback", state |-> state, status |-> 500,
   detail |-> <<"Failed to authenticate with provider: ", e>>]

\* Variant: the handler puts the state back when the exchange fails.
TokenFail_Restore(h, e) ==
  /\ cb[h].pc = "post"
  /\ cb' = [cb EXCEPT ![h] = IdleHandler]
  /\ response' = ProviderFailure(cb[h].state, e)
  /\ sessions' = DictSet(sessions, cb[h].state, <<"pending", now>>)
  /\ UNCHANGED <<now, nextNonce, logins, passed>>

\* Variant: the token request has no timer; it fails only when the provider
\* answers with an error.
TokenFail_NoTimeout(h, e) ==
  /\ e # Timeout
  /\ cb[h].pc = "post"
  /\ cb' = [cb EXCEPT ![h] = IdleHandler]
  /\ response' = ProviderFailure(cb[h].state, e)
  /\ UNCHANGED <<now, sessions, nextNonce, logins, passed>>

\* client.post raises httpx.HTTPError (transport error, timeout or
\* raise_for_status on a non-2xx answer).
TokenFail(h, e) ==
  /\ cb[h].pc = "post"
  /\ cb' = [cb EXCEPT ![h] = IdleHandler]
  /\ response' = ProviderFailure(cb[h].state, e)
  /\ UNCHANGED <<now, sessions, nextNonce, logins, passed>>

\* client.post answers 2xx with a token; the user-info request is sent.
TokenOk(h) ==
  /\ cb[h].pc = "post"
  /\ cb' = [cb EXCEPT ![h].pc = "get"]
  /\ UNCHANGED <<now, sessions, nextNonce, response, logins, passed>>

\* client.get raises httpx.HTTPError.
UserInfoFail(h, e) ==
  /\ cb[h].pc = "get"
  /\ cb' = [cb EXCEPT ![h] = IdleHandler]
  /\ response' = ProviderFailure(cb[h].state, e)
  /\ UNCHANGED <<now, sessions, nextNonce, logins, passed>>

\* client.get answers 2xx with the profile: the user is built, the token
\* created and the cookie set.
UserInfoOk(h, user_data) ==
  /\ cb[h].pc = "get"
  /\ LET user == UserFromProfile(user_data)
         token == create_jwt_token(user, now)
     IN  /\ response' = [op |-> "callback",
                         state |-> cb[h].state,
                         status |-> 200,
                         detail |-> <<"Authentication successful">>,
                         user |-> user,
                         token |-> token,
                         cookie |-> [key |-> "access_token",
                                     value |-> token.access_token,
                                     max_age |-> token.expires_in]]
         /\ logins' = logins \cup {[user |-> user, token |-> token.access_token,
                                     issued_at |-> now]}
  /\ cb' = [cb EXCEPT ![h] = IdleHandler]
  /\ UNCHANGED <<now, sessions, nextNonce, passed>>

\* Variant: authenticating a request also sweeps the state table.
Authenticate_Sweeps(request) ==
  /\ response' = [op |-> "me"] @@ get_current_user(request, now)
  /\ sessions' = cleanup_expired_sessions(sessions, now)
  /\ UNCHANGED <<now, nextNonce, cb, logins, passed>>

\* GET /auth/me and GET /protected
Authenticate(request) ==
  /\ response' = [op |-> "me"] @@ get_current_user(request, now)
  /\ UNCHANGED <<now, sessions, nextNonce, cb, logins, passed>>

\* GET /auth/status
Status(request) ==
  /\ response' = [op |-> "status"] @@ auth_status(request, now)
  /\ UNCHANGED <<now, sessions, nextNonce, cb, logins, passed>>

\* Variant: logging out also empties the state table.
logout_ClearsSessions ==
  /\ response' = [op |-> "logout", status |-> 200,
                  message |-> "Logged out successfully",
                  delete_cookie |-> "access_token"]
  /\ sessions' = [s \in {} |-> <<"pending", 0>>]
  /\ UNCHANGED <<now, nextNonce, cb, logins, passed>>

\* POST /auth/logout
logout ==
  /\ response' = [op |-> "logout", status |-> 200,
                  message |-> "Logged out successfully",
                  delete_cookie |-> "access_token"]
  /\ UNCHANGED <<now, sessions, nextNonce, cb, logins, passed>>

\* create_jwt_token called on a user directly.
IssueToken(user) ==
  /\ Cardinality(logins) < MaxIssued
  /\ logins' = logins \cup {[user |-> user,
                              token |-> create_jwt_token(user, now).access_token,
                              issued_at |-> now]}
  /\ UNCHANGED <<now, sessions, nextNonce, cb, response, passed>>

\* verify_jwt_token called on a credential directly.
Verify(token) ==
  /\ response' = [op |-> "verify", token |-> token,
                  user |-> verify_jwt_token(token, now)]
  /\ UNCHANGED <<now, sessions, nextNonce, cb, logins, passed>>

Next ==
  \/ \E d \in ClockSteps : Tick(d)
  \/ login
  \/ \E h \in Handlers, state \in StateParams : CallbackStart(h, state)
  \/ \E h \in Handlers, e \in ProviderErrors : TokenFail(h, e)
  \/ \E h \in Handlers : TokenOk(h)
  \/ \E h \in Handlers, e \in ProviderErrors : UserInfoFail(h, e)
  \/ \E h \in Handlers, user_data \in Profiles : UserInfoOk(h, user_data)
  \/ \E request \in Requests : Authenticate(request)
  \/ \E request \in Requests : Status(request)
  \/ logout

Spec == Init /\ [][Next]_vars

\* The token service alone: issue, verify, time.
NextToken ==
  \/ \E d \in ClockSteps : Tick(d)
  \/ \E user \in Identities : IssueToken(user)
  \/ \E token \in Credentials : Verify(token)

SpecToken == Init /\ [][NextToken]_vars

\* User-info documents a provider can answer with: the two above, one whose
\* id and name are empty strings and that has no sub, and the empty document.
UserInfoDocuments ==
  Profiles \cup
  { [id |-> "", sub |-> None, email |-> None, name |-> "", display_name |-> "Cy"],
    EmptyDict }

\* The user-building and token-creating part of auth_callback, applied to a
\* user-info document directly.
NormalizeProfile(user_data) ==
  /\ Cardinality(logins) < MaxIssued
  /\ LET user == UserFromProfile(user_data)
     IN  logins' = logins \cup {[user |-> user,
                                  token |-> create_jwt_token(user, now).access_token,
                                  issued_at |-> now]}
  /\ UNCHANGED <<now, sessions, nextNonce, cb, response, passed>>

\* Profile normalisation and the token service.
NextProfile ==
  \/ \E d \in ClockSteps : Tick(d)
  \/ \E user_data \in UserInfoDocuments : NormalizeProfile(user_data)
  \/ \E token \in Credentials : Verify(token)

SpecProfile == Init /\ [][NextProfile]_vars

\* The server with the provider calls' timers: a request that stays
\* unanswered eventually raises the timeout.  Nothing is assumed about the
\* provider answering or about clients calling.
SpecLive ==
  /\ Init
  /\ [][Next]_vars
  /\ \A h \in Handlers : WF_vars(TokenFail(h, Timeout))
  /\ \A h \in Handlers : WF_vars(UserInfoFail(h, Timeout))

TypeOK ==
  /\ now \in 0..(MaxTime * TicksPerSecond)
  /\ DOMAIN sessions \subseteq Nonces
  /\ nextNonce \in 0..MaxLogins

\* ================================================================== claims
\* A callback presenting state s was answered 400.
Rejected(r, s) == r.op = "callback" /\ r.state = s /\ r.status = 400

\* A callback response that carries no user, token or cookie.
NothingIssued(r) == DOMAIN r \cap {"user", "token", "cookie"} = {}

WindowTicks == ExpiredAfterSeconds * TicksPerSecond

\* C1: a state created by login is accepted by exactly one callback: while
\* its ten-minute window lasts the entry leaves the store only by a callback
\* presenting it, the first callback presenting a stored state passes
\* validation, no state passes twice, and every callback presenting a state
\* that has already passed is answered 400.
C1_ConsumeExactlyOnce ==
  [][\A s \in Nonces :
       /\ passed'[s] <= 1
       /\ (s \in DOMAIN sessions /\ now - sessions[s][2] <= WindowTicks
             /\ s \notin DOMAIN sessions') => passed'[s] = passed[s] + 1
       /\ \A h \in Handlers :
            CallbackStart(h, s) =>
              IF passed[s] = 0 /\ s \in DOMAIN sessions
              THEN passed'[s] = 1 /\ cb'[h] = [pc |-> "post", state |-> s]
              ELSE passed[s] >= 1 =>
                     Rejected(response', s) /\ passed' = passed /\ cb' = cb
    ]_vars

\* A state was consumed and, still inside its window, presented again and
\* refused.
C1_Witness ==
  \E s \in Nonces :
    /\ passed[s] = 1
    /\ Rejected(response, s)
    /\ now <= WindowTicks

\* C2: a callback presenting a state created more than 600 seconds earlier
\* is answered 400 even when no sweep has removed the entry.
C2_ExpiredStateRejected ==
  [][\A s \in Nonces, h \in Handlers :
       (CallbackStart(h, s) /\ s \in DOMAIN sessions
          /\ now - sessions[s][2] > WindowTicks)
       => Rejected(response', s) /\ passed' = passed /\ cb' = cb
    ]_vars

\* C3: of the callbacks that carry the same state, however they interleave,
\* at most one passes validation and is in the provider exchange.
C3_AtMostOnePasses ==
  \A s \in StateParams :
    /\ passed[s] <= 1
    /\ Cardinality({h \in Handlers : cb[h].pc # "idle" /\ cb[h].state = s}) <= 1

\* One handler is suspended in the exchange for a state while another
\* request carrying the same state has been refused.
C3_Witness ==
  \E s \in Nonces, h \in Handlers :
    /\ cb[h].pc \in {"post", "get"}
    /\ cb[h].state = s
    /\ Rejected(response, s)

\* C4: a callback whose state is not a stored entry is answered 400, sends
\* nothing to the provider, issues no token, sets no cookie and leaves the
\* store unchanged.
C4_UnknownStateNoEffect ==
  [][\A s \in StateParams, h \in Handlers :
       (CallbackStart(h, s) /\ s \notin DOMAIN sessions)
       => /\ Rejected(response', s)
          /\ NothingIssued(response')
          /\ sessions' = sessions
          /\ cb' = cb
          /\ logins' = logins
    ]_vars

\* A never-issued state was refused while the store held an entry, and a
\* consumed state was refused.
C4_Witness ==
  \/ Rejected(response, UnknownState) /\ DOMAIN sessions # {}
  \/ \E s \in Nonces : Rejected(response, s) /\ passed[s] = 1 /\ DOMAIN sessions # {}

\* C5: when a provider call fails after validation the callback is answered
\* 500 with no token and no cookie, no token is issued, and the consumed
\* state stays out of the store, so a later callback presenting it is
\* answered 400.
C5_ProviderFailureKeepsStateConsumed ==
  [][/\ \A h \in Handlers, e \in ProviderErrors :
          (TokenFail(h, e) \/ UserInfoFail(h, e))
          => /\ response'.op = "callback"
             /\ response'.state = cb[h].state
             /\ response'.status = 500
             /\ NothingIssued(response')
             /\ logins' = logins
             /\ cb[h].state \notin DOMAIN sessions'
     /\ \A s \in Nonces :
          /\ passed[s] >= 1 => s \notin DOMAIN sessions'
          /\ \A h \in Handlers :
               (passed[s] >= 1 /\ CallbackStart(h, s)) => Rejected(response', s)
    ]_vars

\* A callback failed at the provider: answered 500, its state gone from the
\* store, nothing issued.
C5_Witness ==
  /\ response.op = "callback"
  /\ response.status = 500
  /\ passed[response.state] = 1
  /\ response.state \notin DOMAIN sessions
  /\ logins = {}

\* A step that only answers a request of the given kind.
Answers(op) ==
  /\ response'.op = op
  /\ UNCHANGED <<now, sessions, nextNonce, cb, logins, passed>>

\* The time a token's lifetime ends: issue time plus the configured TTL.
ExpiresAt(l) == l.issued_at + jwt_expiration_minutes * 60 * TicksPerSecond

\* The user a token carries: the issued user without the provider profile.
Carried(user) == [user EXCEPT !.provider_data = EmptyDict]

\* C6: verifying an issued token before it expires returns the issued
\* user's id, email, name and provider, for every id, present or absent
\* email and name and every provider string; the provider profile is not
\* carried over.
C6_RoundTrip ==
  [][\A l \in logins :
       (Answers("verify") /\ Verify(l.token) /\ now < ExpiresAt(l))
       => /\ response'.user # NoneObj
          /\ response'.user.id = l.user.id
          /\ response'.user.email = l.user.email
          /\ response'.user.name = l.user.name
          /\ response'.user.provider = l.user.provider
          /\ response'.user.provider_data = EmptyDict
    ]_vars

\* An issued token of a user with an empty id, no email and a non-empty
\* profile was verified and gave a user back.
C6_Witness ==
  /\ response.op = "verify"
  /\ response.user # NoneObj
  /\ response.user.id = ""
  /\ response.user.email = None
  /\ \E l \in logins :
       /\ l.token = response.token
       /\ l.user.provider_data # response.user.provider_data

\* The requests that present exactly one issued token, as cookie or header.
Presenting(t) ==
  { [header |-> NoneObj, cookie |-> t], [header |-> BearerHeader(t), cookie |-> NoneObj] }

\* C7: a token issued at t with TTL T is not accepted at any time at or
\* after t + T: the request presenting it is answered 401.
C7_ExpiredTokenRejected ==
  [][Answers("me") =>
       \A l \in logins : \A request \in Presenting(l.token) :
         (Authenticate(request) /\ now >= ExpiresAt(l))
         => response'.status = 401
    ]_vars

\* The credentials made from issued tokens without the server secret.
Forged ==
  UNION {Tampered(t) : t \in Issued} \cup {Resigned(t) : t \in Issued}

\* The credential verify_jwt_token is given for a request's header.
OnlyForged(request) ==
  /\ request.header # NoneObj => request.header.cred \in Forged \cup {Garbage, EmptyString}
  /\ request.cookie # NoneObj => request.cookie \in Forged \cup {Garbage, EmptyString}

\* C8: a token with one claim changed under the original signature, or
\* signed with another secret, is never accepted, and every user that
\* get_current_user returns has the id, email, name and provider of the
\* user of an earlier successful callback.
C8_OnlyIssuedTokensAccepted ==
  /\ \A request \in Requests :
       OnlyForged(request) => get_current_user(request, now) = Unauthorized
  /\ (response.op = "me" /\ response.status = 200)
       => \E l \in logins : response.user = Carried(l.user)

\* A user of an earlier callback was returned by get_current_user.
C8_Witness ==
  /\ response.op = "me"
  /\ response.status = 200
  /\ \E l \in logins : response.user = Carried(l.user) /\ l.user # response.user
  /\ Forged # {}

\* The request carries a token that verifies, as "Bearer <token>" header or
\* as access_token cookie.
CarriesVerifyingToken(request) ==
  \/ /\ request.header # NoneObj
     /\ request.header.words = <<"Bearer">>
     /\ verify_jwt_token(request.header.cred, now) # NoneObj
  \/ /\ request.cookie # NoneObj
     /\ verify_jwt_token(request.cookie, now) # NoneObj

\* C9: get_current_user returns a user exactly when the request carries a
\* token that verifies in a "Bearer <token>" header or in the access_token
\* cookie, and answers 401 otherwise.
C9_AuthenticatedIffVerifyingToken ==
  [][Answers("me") =>
       \A request \in Requests :
         Authenticate(request)
         => /\ response'.status \in {200, 401}
            /\ response'.status = 200 <=> CarriesVerifyingToken(request)
    ]_vars

\* C10: GET /auth/status answers 200 for every request, with authenticated
\* true and the verified user exactly when get_current_user succeeds on
\* the same request, and with authenticated false and no user otherwise.
C10_StatusNeverFails ==
  /\ response.op = "status" => response.status = 200
  /\ \A request \in Requests :
       LET r == get_current_user(request, now)
           a == auth_status(request, now)
       IN  /\ a.status = 200
           /\ IF r.status = 200
              THEN a.authenticated /\ a.user = r.user
              ELSE ~a.authenticated /\ a.user = NoneObj

\* GET /auth/status answered 200 with the user of an issued token.
C10_Witness ==
  /\ response.op = "status"
  /\ response.status = 200
  /\ response.authenticated
  /\ \E l \in logins : response.user = Carried(l.user)

\* The three ways a presented state can be missing from the table.
NeverIssued(s) == s > nextNonce

AlreadyConsumed(s) == s <= nextNonce /\ passed[s] >= 1

SweptAfterWindow(s) == s <= nextNonce /\ passed[s] = 0 /\ s \notin DOMAIN sessions

\* C11: a callback whose state fails validation is answered with the same
\* generic client error whatever the reason: status 400, the one message
\* "Invalid state parameter" and nothing issued, whether the state was never
\* issued, was already consumed, or was swept after its window elapsed.
C11_RejectionIsUniform ==
  [][\A h \in Handlers, state \in StateParams :
       (CallbackStart(h, state) /\ state \notin DOMAIN sessions)
       => /\ NeverIssued(state) \/ AlreadyConsumed(state) \/ SweptAfterWindow(state)
          /\ response'.status = 400
          /\ response'.detail = <<"Invalid state parameter">>
          /\ DOMAIN response' = {"op", "state", "status", "detail"}
    ]_vars

\* The state of a login that was swept after its window was presented and
\* answered 400, after an earlier state had been consumed.
C11_Witness ==
  /\ \E s \in Nonces : Rejected(response, s) /\ SweptAfterWindow(s)
  /\ \E s \in Nonces : AlreadyConsumed(s)

\* C12: when a provider call fails the callback is answered 500 with a fixed
\* generic message: the response is the same whichever error the provider
\* call raised.
C12_FailureMessageIsGeneric ==
  [][\A h \in Handlers, e1 \in ProviderErrors, e2 \in ProviderErrors :
       /\ TokenFail(h, e1) => (response'.status = 500 /\ TokenFail(h, e2))
       /\ UserInfoFail(h, e1) => (response'.status = 500 /\ UserInfoFail(h, e2))
    ]_vars

\* C13: logout always answers 200 and changes no server-side state: the
\* state table and the callbacks in flight are as before, and every issued
\* token that verified before the logout verifies after it, to the same user.
C13_LogoutChangesNothing ==
  [][logout
     => /\ response'.status = 200
        /\ sessions' = sessions
        /\ cb' = cb
        /\ \A l \in logins :
             verify_jwt_token(l.token, now) # NoneObj
             => /\ l \in logins'
                /\ verify_jwt_token(l.token, now') = verify_jwt_token(l.token, now)
    ]_vars

\* Logout was answered while a state is pending and an issued token verifies.
C13_Witness ==
  /\ response.op = "logout"
  /\ response.status = 200
  /\ DOMAIN sessions # {}
  /\ \E l \in logins : verify_jwt_token(l.token, now) = Carried(l.user)

\* C14: a callback for a state returned by login whose token exchange and
\* profile fetch both succeed, with a profile P that has an id, is answered
\* 200 with a user whose id is P's id, whose email is P's email and whose
\* provider is "oauth2", and with a token that verifies to that user's id,
\* email, name and provider; the same token is set as the access_token
\* cookie.
C14_SuccessfulLogin ==
  [][\A h \in Handlers, P \in Profiles :
       (UserInfoOk(h, P) /\ Truthy(P.id))
       => /\ cb[h].state \in 1..nextNonce
          /\ passed[cb[h].state] = 1
          /\ response'.op = "callback"
          /\ response'.state = cb[h].state
          /\ response'.status = 200
          /\ response'.user.id = P.id
          /\ response'.user.email = P.email
          /\ response'.user.provider = "oauth2"
          /\ response'.token.token_type = "bearer"
          /\ verify_jwt_token(response'.token.access_token, now')
               = Carried(response'.user)
          /\ response'.cookie.key = "access_token"
          /\ response'.cookie.value = response'.token.access_token
    ]_vars

\* A callback was answered 200 for a profile that has both id and sub.
C14_Witness ==
  /\ response.op = "callback"
  /\ response.status = 200
  /\ Truthy(response.user.provider_data.id)
  /\ Truthy(response.user.provider_data.sub)
  /\ response.user.id = response.user.provider_data.id
  /\ response.cookie.value = response.token.access_token

\* A callback that consumed state s is still waiting for the provider.
InFlight(s) == \E h \in Handlers : cb[h].pc # "idle" /\ cb[h].state = s

\* The attempt for state s was consumed and its callback has answered
\* (authenticated or failed).
Terminated(s) == passed[s] >= 1 /\ ~InFlight(s)

\* C15: within one attempt the steps come in the order login, consume,
\* token exchange, profile fetch, issue: a callback starts the exchange only
\* by consuming a state that login created, asks for the profile only after
\* the exchange succeeded, and a token is issued only by a callback whose
\* profile fetch succeeded; once the attempt has answered, nothing further
\* happens for its state.
C15_FlowOrder ==
  [][/\ \A h \in Handlers :
          /\ (cb[h].pc = "idle" /\ cb'[h].pc # "idle")
             => /\ cb'[h].pc = "post"
                /\ cb'[h].state \in 1..nextNonce
                /\ cb'[h].state \in DOMAIN sessions
                /\ cb'[h].state \notin DOMAIN sessions'
                /\ logins' = logins
          /\ (cb[h].pc # "get" /\ cb'[h].pc = "get")
             => /\ cb[h].pc = "post"
                /\ cb'[h].state = cb[h].state
                /\ response' = response
                /\ logins' = logins
          /\ (cb[h].pc = "post" /\ cb'[h].pc = "idle")
             => /\ response'.status = 500
                /\ response'.state = cb[h].state
                /\ logins' = logins
          /\ (cb[h].pc = "get" /\ cb'[h].pc # "get")
             => /\ cb'[h].pc = "idle"
                /\ response'.state = cb[h].state
                /\ response'.status \in {200, 500}
                /\ response'.status = 500 => logins' = logins
     /\ logins' # logins
        => \E h \in Handlers :
             /\ cb[h].pc = "get"
             /\ cb'[h].pc = "idle"
             /\ passed[cb[h].state] = 1
             /\ response'.status = 200
             /\ logins' = logins \cup {[user |-> response'.user,
                                         token |-> response'.token.access_token,
                                         issued_at |-> now]}
     /\ \A s \in Nonces :
          Terminated(s)
          => /\ Terminated(s)'
             /\ passed'[s] = passed[s]
             /\ s \notin DOMAIN sessions'
    ]_vars

\* One attempt has ended with a token and another with a provider failure.
C15_Witness ==
  /\ logins # {}
  /\ \E s \in Nonces :
       /\ Terminated(s)
       /\ response.op = "callback"
       /\ response.state = s
       /\ response.status = 500
  /\ \A s \in Nonces : Terminated(s)

\* C16: each login sweeps and then inserts exactly one entry stamped with the
\* current time: afterwards no entry is older than the 600 s window, every
\* entry that was within the window is still there unchanged, and the state
\* the response returns is the new key, is stored as pending at the current
\* time, and is the state parameter of the returned authorization URL.
C16_LoginSweepsThenInserts ==
  [][login
     => /\ \A s \in DOMAIN sessions' : now - sessions'[s][2] <= WindowTicks
        /\ \A s \in DOMAIN sessions :
             now - sessions[s][2] <= WindowTicks
             => (s \in DOMAIN sessions' /\ sessions'[s] = sessions[s])
        /\ DOMAIN sessions' \ DOMAIN sessions = {response'.state}
        /\ sessions'[response'.state] = <<"pending", now>>
        /\ response'.status = 200
        /\ response'.url_state = response'.state
    ]_vars

\* A login swept the entry of an earlier login and stored its own.
C16_Witness ==
  /\ response.op = "login"
  /\ response.state \in DOMAIN sessions
  /\ \E s \in Nonces : s < response.state /\ SweptAfterWindow(s)
  /\ \A s \in DOMAIN sessions : now - sessions[s][2] <= WindowTicks

\* C17: the user is built from the profile with fixed fallbacks: the id is
\* the profile's id when that is non-empty and its sub otherwise, the name is
\* the profile's name when non-empty and its display_name otherwise, the
\* email is copied, the provider is "oauth2" and the whole profile is kept;
\* so the subject of every issued token is an identifier found in the
\* profile's id or sub.
C17_SubjectFromProfile ==
  \A l \in logins :
    LET profile == l.user.provider_data
    IN  /\ l.user.id = (IF Truthy(profile.id) THEN profile.id ELSE profile.sub)
        /\ l.user.name = (IF Truthy(profile.name) THEN profile.name
                          ELSE profile.display_name)
        /\ l.user.email = profile.email
        /\ l.user.provider = "oauth2"
        /\ l.token.claims.sub \in {profile.id, profile.sub} \ {None}

\* The last response is a successful callback.
LoggedIn(r) == r.op = "callback" /\ r.status = 200

\* C18 as stated: the token's exp is the issue time plus m minutes, the
\* advertised expires_in is m * 60 seconds and equals exp minus the issue
\* time, and the cookie's Max-Age is expires_in.
C18_ExactLifetime ==
  /\ \A l \in logins :
       /\ l.token.claims.exp * TicksPerSecond = ExpiresAt(l)
       /\ jwt_expiration_minutes * 60 * TicksPerSecond
            = l.token.claims.exp * TicksPerSecond - l.issued_at
  /\ LoggedIn(response)
     => /\ response.token.expires_in = jwt_expiration_minutes * 60
        /\ response.cookie.max_age = response.token.expires_in

\* C18, amended: the token's exp is the issue time plus m minutes cut down to
\* the whole second (so exp minus the issue time is at most m * 60 seconds
\* and falls short of it by less than a second), expires_in is m * 60
\* seconds, the cookie's Max-Age is expires_in, and the token verifies at
\* every moment from its issue to the end of the declared lifetime, which is
\* when the cookie lapses.
C18_LifetimeWholeSeconds ==
  /\ \A l \in logins :
       /\ l.token.claims.exp = ExpiresAt(l) \div TicksPerSecond
       /\ ExpiresAt(l) - l.token.claims.exp * TicksPerSecond \in 0..(TicksPerSecond - 1)
       /\ \A t \in {l.issued_at, ExpiresAt(l)} \cup ({now} \cap (l.issued_at..ExpiresAt(l))) :
            verify_jwt_token(l.token, t) = Carried(l.user)
  /\ LoggedIn(response)
     => /\ response.token.expires_in = jwt_expiration_minutes * 60
        /\ response.cookie.max_age = response.token.expires_in
        /\ \A l \in logins :
             l.token = response.cookie.value
             => verify_jwt_token(response.cookie.value,
                                 l.issued_at + response.cookie.max_age * TicksPerSecond)
                  = Carried(l.user)

\* A token issued off the whole second is presented at the very end of its
\* declared lifetime.
C18_Witness ==
  /\ LoggedIn(response)
  /\ \E l \in logins :
       /\ l.token = response.cookie.value
       /\ l.issued_at % TicksPerSecond # 0
       /\ now = l.issued_at + response.cookie.max_age * TicksPerSecond
       /\ verify_jwt_token(l.token, now) # NoneObj

\* C19: every callback that passed validation eventually answers, whether
\* or not the provider does: the attempt for its state ends (authenticated or
\* failed) with the state still consumed; and while a callback waits for the
\* provider the other endpoints can still be served.
C19_CallbackTerminates ==
  /\ \A s \in Nonces : InFlight(s) ~> (Terminated(s) /\ s \notin DOMAIN sessions)
  /\ [](\A h \in Handlers :
          cb[h].pc # "idle"
          => /\ ENABLED logout
             /\ nextNonce < MaxLogins => ENABLED login
             /\ \A h2 \in Handlers \ {h}, state \in StateParams :
                  cb[h2].pc = "idle" => ENABLED CallbackStart(h2, state))

\* A token request timed out, the callback answered 500 and its state stays
\* consumed, while the other handler is still waiting for the provider.
C19_Witness ==
  /\ response.op = "callback"
  /\ response.status = 500
  /\ response.detail[2] = Timeout
  /\ Terminated(response.state)
  /\ response.state \notin DOMAIN sessions
  /\ \E h \in Handlers : cb[h].pc # "idle"

\* C20: the state table is changed only by login (its sweep and one insert)
\* and by a callback (one removal, of the state it presents, leaving every
\* other entry as it was); authenticating a request, the status endpoint and
\* logout leave it unchanged; and every entry has status "pending" and was
\* created by a login whose state has been neither consumed nor swept.
C20_StoreFrame ==
  [][/\ sessions' # sessions
        => \/ login
           \/ \E h \in Handlers, s \in DOMAIN sessions :
                CallbackStart(h, s) /\ sessions' = DictDel(sessions, s)
     /\ \A h \in Handlers :
          (cb[h].pc = "idle" /\ cb'[h].pc # "idle")
          => /\ DOMAIN sessions' = DOMAIN sessions \ {cb'[h].state}
             /\ \A s \in DOMAIN sessions' : sessions'[s] = sessions[s]
     /\ (response' # response /\ response'.op \in {"me", "status", "logout"})
        => sessions' = sessions
     /\ (cb' # cb /\ \A h \in Handlers : cb[h].pc # "idle" \/ cb'[h].pc = "idle")
        => sessions' = sessions
     /\ \A s \in DOMAIN sessions' :
          /\ sessions'[s][1] = "pending"
          /\ sessions'[s][2] <= now'
          /\ s \in 1..nextNonce'
          /\ passed'[s] = 0
          /\ ~InFlight(s)'
    ]_vars

\* A callback has consumed its state while another login's state is still
\* pending, and a request has since been authenticated.
C20_Witness ==
  /\ response.op = "me"
  /\ \E h \in Handlers :
       /\ cb[h].pc # "idle"
       /\ \E s \in DOMAIN sessions : s # cb[h].state /\ sessions[s][1] = "pending"

\* The user a well-formed "Bearer <token>" header verifies to, or NoneObj
\* when the header is missing, is not of that form, or its token fails.
HeaderIdentity(request) ==
  IF request.header # NoneObj /\ request.header.words = <<"Bearer">>
  THEN verify_jwt_token(request.header.cred, now)
  ELSE NoneObj

\* The user the access_token cookie verifies to, or NoneObj.
CookieIdentity(request) ==
  IF request.cookie # NoneObj THEN verify_jwt_token(request.cookie, now) ELSE NoneObj

\* The request carries both an Authorization header and the cookie.
CarriesBoth(request) == request.header # NoneObj /\ request.cookie # NoneObj

\* C21: for a request that carries both an Authorization header and the
\* access_token cookie, get_current_user returns the header's user when the
\* header's token verifies, whatever the cookie; otherwise (the header token
\* malformed or failing) the cookie's user when the cookie verifies; and
\* answers 401 only when neither verifies.
C21_HeaderPrecedence ==
  \A request \in Requests :
    CarriesBoth(request)
    => get_current_user(request, now)
         = IF HeaderIdentity(request) # NoneObj
           THEN [status |-> 200, user |-> HeaderIdentity(request)]
           ELSE IF CookieIdentity(request) # NoneObj
           THEN [status |-> 200, user |-> CookieIdentity(request)]
           ELSE Unauthorized

====
